---------------------------- MODULE Spec2Model ----------------------------
(***************************************************************************)
(* A model of crash-python's XFS support:                                  *)
(*   src/crash/subsystem/filesystem/xfs.py  (class XFSFileSystem)          *)
(*   src/crash/commands/xfs.py              (class XFSCommand)             *)
(*                                                                         *)
(* The subsystem module is Python 2 code (it calls long() without a shim   *)
(* and indents line 131 with a tab), so generators, exceptions and         *)
(* attribute lookup follow Python 2 semantics.                             *)
(*                                                                         *)
(* crash.util.container_of, crash.types.list.list_for_each_entry, the      *)
(* lazy callbacks of crash.infra.CrashBaseClass and the bio decoder        *)
(* registry of crash.subsystem.storage are imported by the sources but are *)
(* not among them; they are modelled from sections 4.2, 4.3, 4.4 and 4.6   *)
(* of the specification.                                                   *)
(***************************************************************************)
EXTENDS Integers, Sequences, FiniteSets, TLC

VARIABLES
    layout,          \* the image's debug information: which structure layout
    ail_fields,      \* the image's struct xfs_ail: the names of its fields
    ail_tags,        \* the image's AIL ring: the li_type of each item, in link order
    ail_head_name,   \* XFSFileSystem.ail_head_name ("unset": no such attribute)
    bio_decoders,    \* the storage registry: completion symbol address -> decoder
    pending,         \* lazy registrations not yet consumed
    calls,           \* the callbacks run so far, with their arguments, in order
    resolved,        \* the subjects that have had a successful resolution event
    trav,            \* the generator objects of the AIL traversals
    bio,             \* the bio handed to the decoder chain
    chain,           \* the chain entries produced so far
    dstate,          \* the decoder chain's position
    arg,             \* the argument of a direct call
    result,          \* what the direct call returned or raised
    dump             \* the run of the command "xfs dump-ail"

vars == <<layout, ail_fields, ail_tags, ail_head_name, bio_decoders, pending,
          calls, resolved, trav, bio, chain, dstate, arg, result, dump>>

imageVars   == <<layout, ail_fields, ail_tags>>
sessionVars == <<ail_head_name, bio_decoders, pending, calls, resolved>>
bioVars     == <<bio, chain, dstate>>
callVars    == <<arg, result>>

---------------------------------------------------------------------------
(* Log item type tags, xfs.py lines 17-23.                                 *)
XFS_LI_EFI      == 4662
XFS_LI_EFD      == 4663
XFS_LI_IUNLINK  == 4664
XFS_LI_INODE    == 4667
XFS_LI_BUF      == 4668
XFS_LI_DQUOT    == 4669
XFS_LI_QUOTAOFF == 4670

(* Bounds of the model.                                                    *)
MaxItems == 3
MaxEvents == 2

(* The tag values an image's log item may carry: every known tag, the      *)
(* values next to the known range and the two values in its gap.           *)
TagUniverse == (XFS_LI_EFI - 1) .. (XFS_LI_QUOTAOFF + 1)

---------------------------------------------------------------------------
(* Values.  A gdb.Value is a type name and an address; a Python integer is *)
(* kept apart from it; an exception is its class and its message.          *)
NoMsg == << >>

Value(type, addr) ==
    [kind |-> "value", type |-> type, addr |-> addr, msg |-> NoMsg]

PyLong(n) ==
    [kind |-> "long", type |-> "long", addr |-> n, msg |-> NoMsg]

Raise(exc, msg) ==
    [kind |-> "error", type |-> exc, addr |-> 0, msg |-> msg]

NoneValue == [kind |-> "none", type |-> "NoneType", addr |-> 0, msg |-> NoMsg]

IsError(v) == v.kind = "error"

(* "{:x}".format(n): the lower-case hexadecimal digits of n, most          *)
(* significant first.                                                      *)
HexDigits == <<"0", "1", "2", "3", "4", "5", "6", "7",
               "8", "9", "a", "b", "c", "d", "e", "f">>

RECURSIVE FormatHex(_)
FormatHex(n) ==
    IF n < 16 THEN <<HexDigits[n + 1]>>
    ELSE FormatHex(n \div 16) \o <<HexDigits[(n % 16) + 1]>>

---------------------------------------------------------------------------
(* The image's structure layouts: the byte offset of a field in its        *)
(* structure.  "first" puts every embedded log item first in its           *)
(* structure, "inner" puts each somewhere else.                            *)
Layouts == {"first", "inner"}

FieldOffsets ==
    [first |->
        ( <<"struct xfs_buf_log_item", "bli_item">>   :> 0
       @@ <<"struct xfs_inode_log_item", "ili_item">> :> 0
       @@ <<"struct xfs_efi_log_item", "efi_item">>   :> 0
       @@ <<"struct xfs_efd_log_item", "efd_item">>   :> 0
       @@ <<"struct xfs_dq_logitem", "qli_item">>     :> 0
       @@ <<"struct xfs_qoff_logitem", "qql_item">>   :> 0
       @@ <<"struct xfs_log_item", "li_ail">>         :> 0
       @@ <<"struct xfs_inode", "i_vnode">>           :> 184 ),
     inner |->
        ( <<"struct xfs_buf_log_item", "bli_item">>   :> 8
       @@ <<"struct xfs_inode_log_item", "ili_item">> :> 16
       @@ <<"struct xfs_efi_log_item", "efi_item">>   :> 24
       @@ <<"struct xfs_efd_log_item", "efd_item">>   :> 32
       @@ <<"struct xfs_dq_logitem", "qli_item">>     :> 40
       @@ <<"struct xfs_qoff_logitem", "qql_item">>   :> 48
       @@ <<"struct xfs_log_item", "li_ail">>         :> 56
       @@ <<"struct xfs_inode", "i_vnode">>           :> 200 )]

(* A class attribute that holds a type descriptor, or something else.      *)
TypeDescriptor(name) == [kind |-> "type", name |-> name]
BoundMethod(name)    == [kind |-> "method", name |-> name]

(* container_of(val, gdbtype, member), specification section 4.4: the      *)
(* value of type gdbtype at val's address less the member's offset.        *)
container_of(val, gdbtype, member) ==
    IF gdbtype.kind # "type"
    THEN Raise("TypeError", <<"not a type descriptor", gdbtype.name>>)
    ELSE IF <<gdbtype.name, member>> \notin DOMAIN FieldOffsets[layout]
    THEN Raise("FieldNotFoundError", <<gdbtype.name, member>>)
    ELSE Value(gdbtype.name,
               val.addr - FieldOffsets[layout][<<gdbtype.name, member>>])

---------------------------------------------------------------------------
(* class XFSFileSystem: the types it asks the session for (each becomes a  *)
(* class attribute holding the type's descriptor), its lazy callbacks and  *)
(* its methods.                                                            *)
xfs_types ==
    <<"struct xfs_log_item", "struct xfs_buf_log_item",
      "struct xfs_inode_log_item", "struct xfs_efi_log_item",
      "struct xfs_efd_log_item", "struct xfs_dq_logitem",
      "struct xfs_qoff_logitem", "struct xfs_inode",
      "struct xfs_mount *", "struct xfs_buf *">>

(* __type_callbacks__ naming another type as the callback's subject.       *)
type_callbacks_WrongSubject ==
    { <<"struct xfs_log_item", "_detect_ail_version">> }

type_callbacks   == { <<"struct xfs_ail", "_detect_ail_version">> }
symbol_callbacks == { <<"xfs_buf_bio_end_io", "_register_xfs_buf_bio_end_io">> }

(* The attribute crash.infra names each requested type by.                 *)
TypeAttribute ==
    [xfs_log_item_type       |-> "struct xfs_log_item",
     xfs_buf_log_item_type   |-> "struct xfs_buf_log_item",
     xfs_inode_log_item_type |-> "struct xfs_inode_log_item",
     xfs_efi_log_item_type   |-> "struct xfs_efi_log_item",
     xfs_efd_log_item_type   |-> "struct xfs_efd_log_item",
     xfs_dq_logitem_type     |-> "struct xfs_dq_logitem",
     xfs_qoff_logitem_type   |-> "struct xfs_qoff_logitem",
     xfs_inode_type          |-> "struct xfs_inode",
     xfs_mount_p_type        |-> "struct xfs_mount *",
     xfs_buf_p_type          |-> "struct xfs_buf *"]

ClassMethods ==
    {"_register_xfs_buf_bio_end_io", "decode_xfsbuf",
     "decode_xfs_buf_bio_end_io", "_detect_ail_version", "xfs_inode",
     "xfs_mount", "xfs_for_each_ail_entry", "xfs_for_each_ail_log_item",
     "item_to_buf_log_item", "item_to_inode_log_item",
     "item_to_efi_log_item", "item_to_efd_log_item",
     "item_to_dquot_log_item", "item_to_quotaoff_log_item",
     "xfs_log_item_typed", "xfs_format_xfsbuf",
     "xfs_for_each_ail_log_item_typed"}

(* cls.<name> for the attributes the class body and crash.infra define.    *)
cls(name) ==
    IF name \in DOMAIN TypeAttribute
          /\ \E i \in 1..Len(xfs_types) : xfs_types[i] = TypeAttribute[name]
    THEN TypeDescriptor(TypeAttribute[name])
    ELSE IF name \in ClassMethods THEN BoundMethod(name)
    ELSE [kind |-> "missing", name |-> name]

---------------------------------------------------------------------------
(* What a call did: the value it returned or the exception it raised, and  *)
(* the container_of casts it made, in order.                               *)
Outcome(ret, casts) == [ret |-> ret, casts |-> casts]

(* A struct xfs_log_item read from the image: its address and li_type.     *)
LogItem(addr, li_type) == [addr |-> addr, li_type |-> li_type]

item_to_buf_log_item(item) ==
    IF item.li_type # XFS_LI_BUF
    THEN Outcome(Raise("TypeError", <<"item is not a buf log item">>), << >>)
    ELSE Outcome(container_of(item, cls("xfs_buf_log_item_type"), "bli_item"),
                 << <<"xfs_buf_log_item_type", "bli_item">> >>)

item_to_inode_log_item(item) ==
    IF item.li_type # XFS_LI_INODE
    THEN Outcome(Raise("TypeError", <<"item is not an inode log item">>), << >>)
    ELSE Outcome(container_of(item, cls("xfs_inode_log_item_type"), "ili_item"),
                 << <<"xfs_inode_log_item_type", "ili_item">> >>)

item_to_efi_log_item(item) ==
    IF item.li_type # XFS_LI_EFI
    THEN Outcome(Raise("TypeError", <<"item is not an EFI log item">>), << >>)
    ELSE Outcome(container_of(item, cls("xfs_efi_log_item_type"), "efi_item"),
                 << <<"xfs_efi_log_item_type", "efi_item">> >>)

(* item_to_efd_log_item pasted from item_to_efi_log_item with only the     *)
(* tag test changed.                                                       *)
item_to_efd_log_item_AsEfi(item) ==
    IF item.li_type # XFS_LI_EFD
    THEN Outcome(Raise("TypeError", <<"item is not an EFD log item">>), << >>)
    ELSE Outcome(container_of(item, cls("xfs_efi_log_item_type"), "efi_item"),
                 << <<"xfs_efi_log_item_type", "efi_item">> >>)

item_to_efd_log_item(item) ==
    IF item.li_type # XFS_LI_EFD
    THEN Outcome(Raise("TypeError", <<"item is not an EFD log item">>), << >>)
    ELSE Outcome(container_of(item, cls("xfs_efd_log_item_type"), "efd_item"),
                 << <<"xfs_efd_log_item_type", "efd_item">> >>)

item_to_dquot_log_item(item) ==
    IF item.li_type # XFS_LI_DQUOT
    THEN Outcome(Raise("TypeError", <<"item is not an DQUOT log item">>), << >>)
    ELSE Outcome(container_of(item, cls("xfs_dq_logitem_type"), "qli_item"),
                 << <<"xfs_dq_logitem_type", "qli_item">> >>)

item_to_quotaoff_log_item(item) ==
    IF item.li_type # XFS_LI_QUOTAOFF
    THEN Outcome(Raise("TypeError", <<"item is not an QUOTAOFF log item">>), << >>)
    ELSE Outcome(container_of(item, cls("xfs_qoff_logitem_type"), "qql_item"),
                 << <<"xfs_qoff_logitem_type", "qql_item">> >>)

(* xfs_log_item_typed whose last line returns the tag instead of raising.  *)
xfs_log_item_typed_PassThrough(item) ==
    LET li_type == item.li_type IN
    IF li_type = XFS_LI_BUF THEN item_to_buf_log_item(item)
    ELSE IF li_type = XFS_LI_INODE THEN item_to_inode_log_item(item)
    ELSE IF li_type = XFS_LI_EFI THEN item_to_efi_log_item(item)
    ELSE IF li_type = XFS_LI_EFD THEN item_to_efd_log_item(item)
    ELSE IF li_type = XFS_LI_IUNLINK THEN Outcome(PyLong(li_type), << >>)
    ELSE IF li_type = XFS_LI_DQUOT THEN item_to_dquot_log_item(item)
    ELSE IF li_type = XFS_LI_QUOTAOFF THEN item_to_quotaoff_log_item(item)
    ELSE Outcome(PyLong(li_type), << >>)

(* xfs_log_item_typed without its XFS_LI_IUNLINK branch.                   *)
xfs_log_item_typed_NoUnlink(item) ==
    LET li_type == item.li_type IN
    IF li_type = XFS_LI_BUF THEN item_to_buf_log_item(item)
    ELSE IF li_type = XFS_LI_INODE THEN item_to_inode_log_item(item)
    ELSE IF li_type = XFS_LI_EFI THEN item_to_efi_log_item(item)
    ELSE IF li_type = XFS_LI_EFD THEN item_to_efd_log_item(item)
    ELSE IF li_type = XFS_LI_DQUOT THEN item_to_dquot_log_item(item)
    ELSE IF li_type = XFS_LI_QUOTAOFF THEN item_to_quotaoff_log_item(item)
    ELSE Outcome(Raise("RuntimeError",
                       <<"Unknown AIL item type ">> \o FormatHex(li_type)),
                 << >>)

xfs_log_item_typed(item) ==
    LET li_type == item.li_type IN
    IF li_type = XFS_LI_BUF THEN item_to_buf_log_item(item)
    ELSE IF li_type = XFS_LI_INODE THEN item_to_inode_log_item(item)
    ELSE IF li_type = XFS_LI_EFI THEN item_to_efi_log_item(item)
    ELSE IF li_type = XFS_LI_EFD THEN item_to_efd_log_item(item)
    ELSE IF li_type = XFS_LI_IUNLINK THEN Outcome(PyLong(li_type), << >>)
    ELSE IF li_type = XFS_LI_DQUOT THEN item_to_dquot_log_item(item)
    ELSE IF li_type = XFS_LI_QUOTAOFF THEN item_to_quotaoff_log_item(item)
    ELSE Outcome(Raise("RuntimeError",
                       <<"Unknown AIL item type ">> \o FormatHex(li_type)),
                 << >>)

(* xfs_inode(vfs_inode): the owning type it hands to container_of is the   *)
(* class attribute xfs_inode.                                              *)
xfs_inode(vfs_inode) ==
    Outcome(container_of(vfs_inode, cls("xfs_inode"), "i_vnode"),
            << <<"xfs_inode", "i_vnode">> >>)

---------------------------------------------------------------------------
(* The lazy resolution registry, specification section 4.2, and the two    *)
(* callbacks XFSFileSystem registers with it.                              *)

TypeNames   == {"struct xfs_ail", "struct xfs_log_item"}
SymbolNames == {"xfs_buf_bio_end_io", "end_bio_bh_io_sync"}

(* The descriptor a type resolves to, and the symbol a name resolves to.   *)
Descriptor(name) ==
    [name |-> name,
     fields |-> IF name = "struct xfs_ail" THEN ail_fields
                ELSE {"li_ail", "li_type", "li_lsn"}]

SymbolAddress == [xfs_buf_bio_end_io |-> 65536, end_bio_bh_io_sync |-> 69632]

Symbol(name) == [name |-> name, addr |-> SymbolAddress[name]]

(* A class body that gives ail_head_name a default.                        *)
class_ail_head_name_Default == "xa_ail"

(* The class body assigns no ail_head_name.                                *)
class_ail_head_name == "unset"

(* _detect_ail_version(gdbtype): the new value of cls.ail_head_name.       *)
_detect_ail_version(gdbtype) ==
    IF "ail_head" \in gdbtype.fields THEN "ail_head" ELSE "xa_ail"

(* register_bio_decoder(sym, decoder): the registry keyed by the symbol's  *)
(* address.                                                                *)
register_bio_decoder(sym, decoder) == (sym.addr :> decoder) @@ bio_decoders

_register_xfs_buf_bio_end_io(sym) ==
    register_bio_decoder(sym, "decode_xfs_buf_bio_end_io")

NoBio == [addr |-> 0, bi_end_io |-> 0, bi_private |-> 0, bi_bdev |-> "none"]

NoCall == [fn |-> "none", out |-> Outcome(NoneValue, << >>)]

IdleSession ==
    /\ ail_head_name = class_ail_head_name
    /\ bio_decoders = << >>
    /\ pending = type_callbacks \cup symbol_callbacks
    /\ calls = << >>
    /\ resolved = [n \in TypeNames \cup SymbolNames |-> 0]

(* A successful resolution of type `name`: a pending registration for it   *)
(* runs its callback with the descriptor and is consumed.                  *)
TypeResolved(name) ==
    /\ resolved[name] < MaxEvents
    /\ resolved' = [resolved EXCEPT ![name] = @ + 1]
    /\ LET due == {r \in pending \cap type_callbacks : r[1] = name} IN
       IF due = {}
       THEN UNCHANGED <<ail_head_name, pending, calls>>
       ELSE LET r == CHOOSE r \in due : TRUE IN
            /\ ail_head_name' = IF r[2] = "_detect_ail_version"
                                THEN _detect_ail_version(Descriptor(name))
                                ELSE ail_head_name
            /\ pending' = pending \ {r}
            /\ calls' = Append(calls, <<r[2], Descriptor(name)>>)
    /\ UNCHANGED <<imageVars, bio_decoders, trav, bioVars, callVars, dump>>

(* A successful resolution of symbol `name`.                               *)
SymbolResolved(name) ==
    /\ resolved[name] < MaxEvents
    /\ resolved' = [resolved EXCEPT ![name] = @ + 1]
    /\ LET due == {r \in pending \cap symbol_callbacks : r[1] = name} IN
       IF due = {}
       THEN UNCHANGED <<bio_decoders, pending, calls>>
       ELSE LET r == CHOOSE r \in due : TRUE IN
            /\ bio_decoders' = IF r[2] = "_register_xfs_buf_bio_end_io"
                               THEN _register_xfs_buf_bio_end_io(Symbol(name))
                               ELSE bio_decoders
            /\ pending' = pending \ {r}
            /\ calls' = Append(calls, <<r[2], Symbol(name)>>)
    /\ UNCHANGED <<imageVars, ail_head_name, trav, bioVars, callVars, dump>>

---------------------------------------------------------------------------
(* The image's active item list: the struct xfs_ail of the mount, its list *)
(* head, and the log items linked on it through li_ail.                    *)
AilImage == [addr |-> 1024, head_offset |-> 16]

AilHeadAddr == AilImage.addr + AilImage.head_offset

(* The address of the i-th log item's struct xfs_log_item, and of its link.*)
ItemAddr(i) == 4096 + 256 * i

LinkAddr(i) ==
    ItemAddr(i) + FieldOffsets[layout][<<"struct xfs_log_item", "li_ail">>]

Unmapped == -1

(* The next pointer of the struct list_head at address a.                  *)
NextOf(a) ==
    LET n == Len(ail_tags) IN
    IF a = AilHeadAddr THEN (IF n = 0 THEN AilHeadAddr ELSE LinkAddr(1))
    ELSE IF \E i \in 1..n : a = LinkAddr(i)
    THEN LET i == CHOOSE i \in 1..n : a = LinkAddr(i) IN
         IF i = n THEN AilHeadAddr ELSE LinkAddr(i + 1)
    ELSE Unmapped

(* The li_type of the struct xfs_log_item at address a; an address that    *)
(* holds no log item reads as 0, which is no tag.                          *)
ReadLiType(a) ==
    IF \E i \in 1..Len(ail_tags) : a = ItemAddr(i)
    THEN ail_tags[CHOOSE i \in 1..Len(ail_tags) : a = ItemAddr(i)]
    ELSE 0

---------------------------------------------------------------------------
(* Generators.  A generator object keeps what its frame holds: the field   *)
(* name and list head it read on its first resumption, the link it will    *)
(* look at next and the steps it has taken.  `out` and `errs` are what its *)
(* consumer has received from it; `stopped` is whether the consumer has    *)
(* been given StopIteration.                                               *)
Travs == {"A", "B"}

TravKinds ==
    {"xfs_for_each_ail_entry", "xfs_for_each_ail_log_item",
     "xfs_for_each_ail_log_item_typed"}

IdleGen ==
    [kind |-> "none", st |-> "idle", name |-> "unset", head |-> 0, node |-> 0,
     steps |-> 0, out |-> << >>, errs |-> << >>, stopped |-> FALSE]

NewGen(kind) == [IdleGen EXCEPT !.kind = kind, !.st = "created"]

(* The command "xfs dump-ail" before it is run: what it has printed, its   *)
(* itemno, the generator it iterates and the exception that ended it.      *)
NoDump ==
    [pc |-> "idle", itemno |-> 0, gen |-> IdleGen, header |-> << >>,
     out |-> << >>, err |-> NoneValue]

(* What one resumption of a generator gives: the generator afterwards and  *)
(* a value yielded, an exception raised, or the end of the iteration.      *)
Yield(g, v)  == [gen |-> [g EXCEPT !.st = "suspended"], ev |-> "yield", val |-> v]
Raised(g, e) == [gen |-> [g EXCEPT !.st = "finished"], ev |-> "raise", val |-> e]
Stop(g)      == [gen |-> [g EXCEPT !.st = "finished"], ev |-> "stop", val |-> NoneValue]

StepCeiling == MaxItems + 2

(* list_for_each_entry(head, gdbtype, member), specification section 4.3,  *)
(* resumed with g.node the link to look at.                                *)
list_for_each_entry(g, gdbtype, member) ==
    IF g.node = g.head THEN Stop(g)
    ELSE IF g.node = Unmapped
    THEN Raised(g, Raise("MemoryAccessError", <<"list_head">>))
    ELSE IF g.steps >= StepCeiling
    THEN Raised(g, Raise("CorruptListError", <<g.steps, g.node>>))
    ELSE LET entry == container_of(Value("struct list_head", g.node),
                                   gdbtype, member) IN
         IF IsError(entry) THEN Raised(g, entry)
         ELSE Yield([g EXCEPT !.node = NextOf(g.node), !.steps = @ + 1], entry)

(* ail[cls.ail_head_name], with cls.ail_head_name read as `name`.          *)
ReadAilHead(name) ==
    IF name = "unset" THEN Raise("AttributeError", <<"ail_head_name">>)
    ELSE IF name \notin ail_fields
    THEN Raise("gdb.error", <<"There is no member named ", name>>)
    ELSE Value("struct list_head", AilHeadAddr)

(* xfs_for_each_ail_entry(ail), resumed once.                              *)
xfs_for_each_ail_entry(g, name) ==
    IF g.st = "created"
    THEN LET head == ReadAilHead(name) IN
         IF IsError(head) THEN Raised([g EXCEPT !.name = name], head)
         ELSE list_for_each_entry(
                  [g EXCEPT !.name = name, !.head = head.addr,
                            !.node = NextOf(head.addr)],
                  cls("xfs_log_item_type"), "li_ail")
    ELSE list_for_each_entry(g, cls("xfs_log_item_type"), "li_ail")

(* xfs_for_each_ail_log_item(mp), resumed once: it yields what the         *)
(* traversal of mp['m_ail'] yields.                                        *)
xfs_for_each_ail_log_item(g, name) == xfs_for_each_ail_entry(g, name)

(* xfs_for_each_ail_log_item_typed yielding the item it was given.         *)
xfs_for_each_ail_log_item_typed_Untyped(g, name) ==
    xfs_for_each_ail_entry(g, name)

(* xfs_for_each_ail_log_item_typed(mp), resumed once: an exception of      *)
(* xfs_log_item_typed leaves the generator's frame and finishes it.        *)
xfs_for_each_ail_log_item_typed(g, name) ==
    LET r == xfs_for_each_ail_log_item(g, name) IN
    IF r.ev # "yield" THEN r
    ELSE LET typed == xfs_log_item_typed(
                          LogItem(r.val.addr, ReadLiType(r.val.addr))) IN
         IF IsError(typed.ret) THEN Raised(r.gen, typed.ret)
         ELSE Yield(r.gen, typed.ret)

Resume(g, name) ==
    CASE g.kind = "xfs_for_each_ail_entry" -> xfs_for_each_ail_entry(g, name)
      [] g.kind = "xfs_for_each_ail_log_item" -> xfs_for_each_ail_log_item(g, name)
      [] g.kind = "xfs_for_each_ail_log_item_typed" ->
             xfs_for_each_ail_log_item_typed(g, name)

(* The consumer's record of one next() on generator g.                     *)
Received(r) ==
    [r.gen EXCEPT
        !.out = IF r.ev = "yield" THEN Append(@, r.val) ELSE @,
        !.errs = IF r.ev = "raise" THEN Append(@, r.val) ELSE @,
        !.stopped = (r.ev = "stop")]

(* Calling one of the traversal functions makes a generator; none of its   *)
(* body runs yet.                                                          *)
TravStart(t, kind) ==
    /\ trav[t].st = "idle"
    /\ trav' = [trav EXCEPT ![t] = NewGen(kind)]
    /\ UNCHANGED <<imageVars, sessionVars, bioVars, callVars, dump>>

(* next() with the cursor kept on the class instead of in the frame: every *)
(* suspended generator continues from the link this one reached.           *)
TravNext_SharedCursor(t) ==
    /\ trav[t].st \in {"created", "suspended"}
    /\ LET g == Received(Resume(trav[t], ail_head_name)) IN
       trav' = [u \in Travs |->
                   IF u = t THEN g
                   ELSE IF trav[u].st = "suspended"
                        THEN [trav[u] EXCEPT !.node = g.node]
                        ELSE trav[u]]
    /\ UNCHANGED <<imageVars, sessionVars, bioVars, callVars, dump>>

(* next() on a generator that has not finished.                            *)
TravNext(t) ==
    /\ trav[t].st \in {"created", "suspended"}
    /\ trav' = [trav EXCEPT ![t] = Received(Resume(trav[t], ail_head_name))]
    /\ UNCHANGED <<imageVars, sessionVars, bioVars, callVars, dump>>

(* next() on a generator that an exception finished: StopIteration.        *)
TravNextFinished(t) ==
    /\ trav[t].st = "finished" /\ ~trav[t].stopped
    /\ trav' = [trav EXCEPT ![t].stopped = TRUE]
    /\ UNCHANGED <<imageVars, sessionVars, bioVars, callVars, dump>>

(* The tags the items of the modelled list carry: two structured tags, the *)
(* unlink tag and a value in the gap of the known range.                   *)
ImageTags == {XFS_LI_BUF, XFS_LI_INODE, XFS_LI_IUNLINK, XFS_LI_IUNLINK + 1}

TagLists == UNION {[1..n -> ImageTags] : n \in 0..MaxItems}

Init ==
    /\ layout = "inner"
    /\ ail_fields \in {{"ail_head"}, {"xa_ail"}, {}}
    /\ ail_tags \in TagLists
    /\ IdleSession
    /\ trav = [t \in Travs |-> IdleGen]
    /\ bio = NoBio /\ chain = << >> /\ dstate = "idle"
    /\ arg = [kind |-> "none", addr |-> 0, li_type |-> 0]
    /\ result = NoCall
    /\ dump = NoDump

(* Each subject resolves at most once here; SpecBio repeats the events.    *)
Next ==
    \/ resolved["struct xfs_ail"] = 0 /\ TypeResolved("struct xfs_ail")
    \/ resolved["xfs_buf_bio_end_io"] = 0 /\ SymbolResolved("xfs_buf_bio_end_io")
    \/ \E t \in Travs, kind \in TravKinds : TravStart(t, kind)
    \/ \E t \in Travs : TravNext(t)
    \/ \E t \in Travs : TravNextFinished(t)

Spec == Init /\ [][Next]_vars

---------------------------------------------------------------------------
(* The bio decoders and the decoder chain, specification section 4.6.      *)

(* "{}".format(n): the decimal digits of n.                                *)
RECURSIVE FormatDec(_)
FormatDec(n) ==
    IF n < 10 THEN <<HexDigits[n + 1]>>
    ELSE FormatDec(n \div 10) \o <<HexDigits[(n % 10) + 1]>>

(* The image's xfs_buf structures, by address, and its block devices.      *)
XfsBufs ==
    (28672 :> [b_file_offset |-> 0, b_buffer_length |-> 4096, b_bn |-> 64])
 @@ (29184 :> [b_file_offset |-> 8192, b_buffer_length |-> 512, b_bn |-> 2050])

BlockDevices == (20480 :> "sda1") @@ (20992 :> "dm-0")

block_device_name(bdev) == BlockDevices[bdev]

Bios ==
    [addr : {24576, 24832},
     bi_end_io : {SymbolAddress[n] : n \in SymbolNames},
     bi_private : DOMAIN XfsBufs,
     bi_bdev : DOMAIN BlockDevices]

(* value.cast(gdbtype) of a pointer-sized value.                           *)
Cast(pointer, gdbtype) == Value(gdbtype.name, pointer)

decode_xfsbuf(xfsbuf) ==
    [description |->
         <<FormatHex(xfsbuf.addr), " xfsbuf: offset ",
           FormatDec(XfsBufs[xfsbuf.addr].b_file_offset), ", size ",
           FormatDec(XfsBufs[xfsbuf.addr].b_buffer_length), ", block number ",
           FormatDec(XfsBufs[xfsbuf.addr].b_bn)>>,
     fstype |-> "xfs",
     xfsbuf |-> xfsbuf]

(* decode_xfs_buf_bio_end_io without its 'next' and 'decode' keys.         *)
decode_xfs_buf_bio_end_io_NoNext(b) ==
    LET fstype  == "xfs"
        devname == block_device_name(b.bi_bdev)
    IN  [description |->
             <<FormatHex(b.addr), " bio: ", fstype, " buffer on ", devname>>,
         bio |-> b,
         fstype |-> fstype,
         devname |-> devname]

decode_xfs_buf_bio_end_io(b) ==
    LET xfsbuf  == Cast(b.bi_private, cls("xfs_buf_p_type"))
        fstype  == "xfs"
        devname == block_device_name(b.bi_bdev)
    IN  [description |->
             <<FormatHex(b.addr), " bio: ", fstype, " buffer on ", devname>>,
         bio |-> b,
         fstype |-> fstype,
         devname |-> devname,
         next |-> xfsbuf,
         decode |-> "decode_xfsbuf"]

ApplyDecoder(decoder, handle) ==
    CASE decoder = "decode_xfs_buf_bio_end_io" -> decode_xfs_buf_bio_end_io(handle)
      [] decoder = "decode_xfsbuf" -> decode_xfsbuf(handle)

AfterEntry(entry) == IF "decode" \in DOMAIN entry THEN "more" ELSE "done"

(* decode(bio): the first entry, from the decoder registered for the bio's *)
(* completion routine; a bio with none is not decodable.                   *)
DecodeStart ==
    /\ dstate = "idle"
    /\ IF bio.bi_end_io \in DOMAIN bio_decoders
       THEN LET entry == ApplyDecoder(bio_decoders[bio.bi_end_io], bio) IN
            /\ chain' = <<entry>>
            /\ dstate' = AfterEntry(entry)
       ELSE /\ chain' = chain
            /\ dstate' = "undecodable"
    /\ UNCHANGED <<imageVars, sessionVars, trav, bio, callVars, dump>>

(* The next entry, from the decoder and the handle the last entry names.   *)
DecodeNext ==
    /\ dstate = "more"
    /\ LET last  == chain[Len(chain)]
           entry == ApplyDecoder(last.decode, last.next) IN
       /\ chain' = Append(chain, entry)
       /\ dstate' = AfterEntry(entry)
    /\ UNCHANGED <<imageVars, sessionVars, trav, bio, callVars, dump>>

InitBio ==
    /\ layout = "first"
    /\ ail_fields \in {{"ail_head"}, {"xa_ail"}, {}}
    /\ ail_tags = << >>
    /\ IdleSession
    /\ trav = [t \in Travs |-> IdleGen]
    /\ bio \in Bios /\ chain = << >> /\ dstate = "idle"
    /\ arg = [kind |-> "none", addr |-> 0, li_type |-> 0]
    /\ result = NoCall
    /\ dump = NoDump

NextBio ==
    \/ \E n \in TypeNames : TypeResolved(n)
    \/ \E n \in SymbolNames : SymbolResolved(n)
    \/ DecodeStart
    \/ DecodeNext

SpecBio == InitBio /\ [][NextBio]_vars

---------------------------------------------------------------------------
(* Direct calls of the conversions, on arguments drawn from the image.     *)
HeaderAddrs   == {4096, 4352, 8192}
XfsInodeAddrs == {12288, 12800, 16384}

Conversions ==
    {"item_to_buf_log_item", "item_to_inode_log_item", "item_to_efi_log_item",
     "item_to_efd_log_item", "item_to_dquot_log_item",
     "item_to_quotaoff_log_item"}

Convert(fn, item) ==
    CASE fn = "item_to_buf_log_item"      -> item_to_buf_log_item(item)
      [] fn = "item_to_inode_log_item"    -> item_to_inode_log_item(item)
      [] fn = "item_to_efi_log_item"      -> item_to_efi_log_item(item)
      [] fn = "item_to_efd_log_item"      -> item_to_efd_log_item(item)
      [] fn = "item_to_dquot_log_item"    -> item_to_dquot_log_item(item)
      [] fn = "item_to_quotaoff_log_item" -> item_to_quotaoff_log_item(item)

InitCalls ==
    /\ layout \in Layouts
    /\ ail_fields = {"xa_ail"}
    /\ ail_tags = << >>
    /\ IdleSession
    /\ trav = [t \in Travs |-> IdleGen]
    /\ bio = NoBio /\ chain = << >> /\ dstate = "idle"
    /\ \/ \E a \in HeaderAddrs, t \in TagUniverse :
             arg = [kind |-> "item", addr |-> a, li_type |-> t]
       \/ \E p \in XfsInodeAddrs :
             arg = [kind |-> "inode",
                    addr |-> p + FieldOffsets[layout][<<"struct xfs_inode", "i_vnode">>],
                    li_type |-> 0]
    /\ result = NoCall
    /\ dump = NoDump

Call_xfs_log_item_typed ==
    /\ arg.kind = "item" /\ result = NoCall
    /\ result' = [fn |-> "xfs_log_item_typed",
                  out |-> xfs_log_item_typed(LogItem(arg.addr, arg.li_type))]
    /\ UNCHANGED <<imageVars, sessionVars, trav, bioVars, arg, dump>>

Call_item_to(fn) ==
    /\ arg.kind = "item" /\ result = NoCall
    /\ result' = [fn |-> fn, out |-> Convert(fn, LogItem(arg.addr, arg.li_type))]
    /\ UNCHANGED <<imageVars, sessionVars, trav, bioVars, arg, dump>>

Call_xfs_inode ==
    /\ arg.kind = "inode" /\ result = NoCall
    /\ result' = [fn |-> "xfs_inode",
                  out |-> xfs_inode(Value("struct inode", arg.addr))]
    /\ UNCHANGED <<imageVars, sessionVars, trav, bioVars, arg, dump>>

NextCalls ==
    \/ Call_xfs_log_item_typed
    \/ \E fn \in Conversions : Call_item_to(fn)
    \/ Call_xfs_inode

SpecCalls == InitCalls /\ [][NextCalls]_vars

---------------------------------------------------------------------------
(* The command "xfs dump-ail", src/crash/commands/xfs.py.                  *)

(* A Python string the command slices is kept as its characters.           *)
XFS_LI_ == <<"X", "F", "S", "_", "L", "I", "_">>

(* The key: value pairs of the XFS_LI_TYPES literal, in source order.      *)
XFS_LI_TYPES_pairs ==
    << <<XFS_LI_EFI,      XFS_LI_ \o <<"E", "F", "I">> >>,
       <<XFS_LI_EFD,      XFS_LI_ \o <<"E", "F", "D">> >>,
       <<XFS_LI_IUNLINK,  XFS_LI_ \o <<"I", "U", "N", "L", "I", "N", "K">> >>,
       <<XFS_LI_INODE,    XFS_LI_ \o <<"I", "N", "O", "D", "E">> >>,
       <<XFS_LI_BUF,      XFS_LI_ \o <<"B", "U", "F">> >>,
       <<XFS_LI_EFI,      XFS_LI_ \o <<"E", "F", "I">> >>,
       <<XFS_LI_DQUOT,    XFS_LI_ \o <<"D", "Q", "U", "O", "T">> >>,
       <<XFS_LI_QUOTAOFF, XFS_LI_ \o <<"Q", "U", "O", "T", "A", "O", "F", "F">> >> >>

(* A dict display: a later pair with the same key replaces the earlier.    *)
RECURSIVE DictDisplay(_)
DictDisplay(pairs) ==
    IF pairs = << >> THEN << >>
    ELSE LET last == pairs[Len(pairs)] IN
         (last[1] :> last[2]) @@ DictDisplay(SubSeq(pairs, 1, Len(pairs) - 1))

XFS_LI_TYPES == DictDisplay(XFS_LI_TYPES_pairs)

(* s[k:] *)
SliceFrom(s, k) == SubSeq(s, k + 1, Len(s))

(* The fields the image's debug information gives each variant structure.  *)
StructFields ==
    ( "struct xfs_buf_log_item"   :> {"bli_item", "bli_buf", "bli_flags"}
   @@ "struct xfs_inode_log_item" :> {"ili_item", "ili_inode"}
   @@ "struct xfs_efi_log_item"   :> {"efi_item", "efi_format"}
   @@ "struct xfs_efd_log_item"   :> {"efd_item", "efd_format"}
   @@ "struct xfs_dq_logitem"     :> {"qli_item", "qli_dquot"}
   @@ "struct xfs_qoff_logitem"   :> {"qql_item", "qql_format"} )

(* item[field]: nothing when the field can be read, else the exception.    *)
GetItem(item, field) ==
    IF item.kind # "value"
    THEN Raise("TypeError", <<"object has no attribute '__getitem__'">>)
    ELSE IF field \notin StructFields[item.type]
    THEN Raise("gdb.error", <<"There is no member named ", field>>)
    ELSE NoneValue

(* item.address: a gdb.Value has one, a Python integer has not.            *)
Address(item) ==
    IF item.kind = "value" THEN PyLong(item.addr)
    ELSE Raise("AttributeError", <<"object has no attribute 'address'">>)

(* The first exception among the reads of these fields of item, if any.    *)
RECURSIVE GetItems(_, _)
GetItems(item, fields) ==
    IF fields = << >> THEN NoneValue
    ELSE LET e == GetItem(item, Head(fields)) IN
         IF IsError(e) THEN e ELSE GetItems(item, Tail(fields))

(* What a branch of dump_ail did: the label it prints, the address it      *)
(* prints where the model knows it, and the exception that ended it.       *)
Detail(label, at, err) == [label |-> label, at |-> at, err |-> err]

(* A branch that prints the address of the typed item after its reads.     *)
DetailAtItem(label, item, fields) ==
    LET e == GetItems(item, fields) IN
    IF IsError(e) THEN Detail(label, << >>, e)
    ELSE LET a == Address(item) IN
         IF IsError(a) THEN Detail(label, << >>, a)
         ELSE Detail(label, FormatHex(a.addr), NoneValue)

(* The if/elif chain of dump_ail, lines 100-137, with the tests as they    *)
(* are written: the fourth test repeats XFS_LI_EFI.                        *)
dump_ail_branch(li_type, item) ==
    IF li_type = XFS_LI_BUF
    THEN Detail("buf@", << >>, GetItems(item, <<"bli_buf", "bli_flags">>))
    ELSE IF li_type = XFS_LI_INODE
    THEN Detail("inode@", << >>, GetItems(item, <<"ili_inode">>))
    ELSE IF li_type = XFS_LI_EFI
    THEN DetailAtItem("efi@", item, <<"efi_format">>)
    ELSE IF li_type = XFS_LI_EFI
    THEN DetailAtItem("efd@", item, <<"efd_format">>)
    ELSE IF li_type = XFS_LI_DQUOT
    THEN Detail("dquot@", << >>, GetItems(item, <<"qli_dquot">>))
    ELSE IF li_type = XFS_LI_QUOTAOFF
    THEN Detail("qoff@", << >>, GetItems(item, <<"qql_format">>))
    ELSE DetailAtItem("item@", item, << >>)

(* The body of dump_ail's loop for the log item bitem, lines 94-138: the   *)
(* first print comes before the branch, itemno goes up after it.           *)
dump_ail_item(d, bitem) ==
    LET li_type == ReadLiType(bitem.addr)
        item    == xfs_log_item_typed(LogItem(bitem.addr, li_type)).ret
    IN  IF IsError(item) THEN [d EXCEPT !.pc = "failed", !.err = item]
        ELSE IF li_type \notin DOMAIN XFS_LI_TYPES
        THEN [d EXCEPT !.pc = "failed",
                       !.err = Raise("KeyError", FormatHex(li_type))]
        ELSE LET det  == dump_ail_branch(li_type, item)
                 line == [itemno   |-> d.itemno,
                          item     |-> FormatHex(bitem.addr),
                          li_type  |-> li_type,
                          name     |-> SliceFrom(XFS_LI_TYPES[li_type], 7),
                          label    |-> det.label,
                          at       |-> det.at,
                          complete |-> ~IsError(det.err)]
             IN  IF IsError(det.err)
                 THEN [d EXCEPT !.pc = "failed", !.err = det.err,
                                !.out = Append(@, line)]
                 ELSE [d EXCEPT !.out = Append(@, line), !.itemno = @ + 1]

(* for bitem in xfs_for_each_ail_log_item(mp): nothing catches what the    *)
(* generator or the body raises.                                           *)
RECURSIVE dump_ail_loop(_, _)
dump_ail_loop(d, name) ==
    LET r == Resume(d.gen, name) IN
    IF r.ev = "stop" THEN [d EXCEPT !.pc = "done", !.gen = r.gen]
    ELSE IF r.ev = "raise"
    THEN [d EXCEPT !.pc = "failed", !.gen = r.gen, !.err = r.val]
    ELSE LET after == dump_ail_item([d EXCEPT !.gen = r.gen], r.val) IN
         IF after.pc = "failed" THEN after ELSE dump_ail_loop(after, name)

(* The fields of the AIL that dump_ail prints before the loop, lines       *)
(* 85-87, outside any try.                                                 *)
dump_ail_header_fields == <<"xa_target", "xa_last_pushed_lsn">>

(* dump_ail(args), lines 79-138.  long(['xa_log_flush']) is long() of a    *)
(* list, a TypeError that the bare except turns into "[N/A]".              *)
dump_ail(d, name) ==
    LET ail == Value("struct xfs_ail", AilImage.addr)
        missing == SelectSeq(dump_ail_header_fields,
                             LAMBDA f : f \notin ail_fields)
    IN  IF missing # << >>
        THEN [d EXCEPT !.pc = "failed",
                       !.header = <<"AIL @ ", FormatHex(ail.addr)>>,
                       !.err = Raise("gdb.error",
                                     <<"There is no member named ", missing[1]>>)]
        ELSE dump_ail_loop(
                 [d EXCEPT !.pc = "loop", !.itemno = 0,
                           !.header = <<"AIL @ ", FormatHex(ail.addr), "[N/A]">>,
                           !.gen = NewGen("xfs_for_each_ail_log_item")],
                 name)

(* The command is run once.                                                *)
Run_dump_ail ==
    /\ dump.pc = "idle"
    /\ dump' = dump_ail(dump, ail_head_name)
    /\ UNCHANGED <<imageVars, sessionVars, trav, bioVars, callVars>>

(* The images the command is run on: the AIL's structure with the field    *)
(* names of either version, or with the list head alone renamed; a list of *)
(* items carrying any known tag or a value in the gap of the known range.  *)
AilStructs ==
    { {"xa_ail", "xa_target", "xa_last_pushed_lsn"},
      {"ail_head", "xa_target", "xa_last_pushed_lsn"},
      {"ail_head", "ail_target", "ail_last_pushed_lsn"} }

DumpTags ==
    {XFS_LI_EFI, XFS_LI_EFD, XFS_LI_IUNLINK, XFS_LI_INODE, XFS_LI_BUF,
     XFS_LI_DQUOT, XFS_LI_QUOTAOFF, XFS_LI_IUNLINK + 1}

DumpTagLists == UNION {[1..n -> DumpTags] : n \in 0..MaxItems}

InitDump ==
    /\ layout = "inner"
    /\ ail_fields \in AilStructs
    /\ ail_tags \in DumpTagLists
    /\ IdleSession
    /\ trav = [t \in Travs |-> IdleGen]
    /\ bio = NoBio /\ chain = << >> /\ dstate = "idle"
    /\ arg = [kind |-> "none", addr |-> 0, li_type |-> 0]
    /\ result = NoCall
    /\ dump = NoDump

NextDump ==
    \/ resolved["struct xfs_ail"] = 0 /\ TypeResolved("struct xfs_ail")
    \/ Run_dump_ail

SpecDump == InitDump /\ [][NextDump]_vars

---------------------------------------------------------------------------
(* Properties of the conversions, checked under SpecCalls.                 *)

StructuredTags ==
    {XFS_LI_BUF, XFS_LI_INODE, XFS_LI_EFI, XFS_LI_EFD, XFS_LI_DQUOT,
     XFS_LI_QUOTAOFF}

KnownTags == StructuredTags \cup {XFS_LI_IUNLINK}

(* The variant each structured tag stands for: the attribute holding its   *)
(* type, the type, and the field the generic header is embedded under.     *)
VariantOf(tag) ==
    CASE tag = XFS_LI_BUF      -> <<"xfs_buf_log_item_type", "struct xfs_buf_log_item", "bli_item">>
      [] tag = XFS_LI_INODE    -> <<"xfs_inode_log_item_type", "struct xfs_inode_log_item", "ili_item">>
      [] tag = XFS_LI_EFI      -> <<"xfs_efi_log_item_type", "struct xfs_efi_log_item", "efi_item">>
      [] tag = XFS_LI_EFD      -> <<"xfs_efd_log_item_type", "struct xfs_efd_log_item", "efd_item">>
      [] tag = XFS_LI_DQUOT    -> <<"xfs_dq_logitem_type", "struct xfs_dq_logitem", "qli_item">>
      [] tag = XFS_LI_QUOTAOFF -> <<"xfs_qoff_logitem_type", "struct xfs_qoff_logitem", "qql_item">>

ExpectedVariant(tag, addr) ==
    Value(VariantOf(tag)[2],
          addr - FieldOffsets[layout][<<VariantOf(tag)[2], VariantOf(tag)[3]>>])

HexValue(d) == (CHOOSE i \in 1..16 : HexDigits[i] = d) - 1

RECURSIVE ParseHex(_)
ParseHex(ds) ==
    IF ds = << >> THEN 0
    ELSE 16 * ParseHex(SubSeq(ds, 1, Len(ds) - 1)) + HexValue(ds[Len(ds)])

TypedCalled == result.fn = "xfs_log_item_typed"

(* C1: for a header whose li_type is a structured known tag,               *)
(* xfs_log_item_typed returns a value of that tag's own variant type at    *)
(* the header's address less the offset of that variant's embedding field, *)
(* made by one cast through that field; and no other structured tag gives  *)
(* the same variant type or goes through the same embedding field.         *)
C1_StructuredTagGivesOwnVariant ==
    (TypedCalled /\ arg.li_type \in StructuredTags) =>
        /\ result.out.ret = ExpectedVariant(arg.li_type, arg.addr)
        /\ result.out.casts =
              << <<VariantOf(arg.li_type)[1], VariantOf(arg.li_type)[3]>> >>
        /\ \A t \in StructuredTags \ {arg.li_type} :
              LET other == xfs_log_item_typed(LogItem(arg.addr, t)) IN
              /\ other.ret.kind = "value"
              /\ other.ret.type # result.out.ret.type
              /\ Len(other.casts) = 1
              /\ other.casts[1][2] # result.out.casts[1][2]

C1_Witness ==
    /\ TypedCalled
    /\ arg.li_type = XFS_LI_EFD
    /\ layout = "inner"
    /\ result.out.ret = Value("struct xfs_efd_log_item", arg.addr - 32)

(* C2: for a header whose li_type is none of the seven known tags,         *)
(* xfs_log_item_typed raises an error whose message carries exactly that   *)
(* tag value; it returns no value and makes no cast.                       *)
C2_UnknownTagRaisesWithTag ==
    (TypedCalled /\ arg.li_type \notin KnownTags) =>
        /\ result.out.ret.kind = "error"
        /\ result.out.ret.type = "RuntimeError"
        /\ Len(result.out.ret.msg) > 1
        /\ ParseHex(Tail(result.out.ret.msg)) = arg.li_type
        /\ result.out.casts = << >>

C2_Witness ==
    /\ TypedCalled
    /\ arg.li_type = XFS_LI_IUNLINK + 1
    /\ result.out.ret.kind = "error"
    /\ result.out.ret.msg = <<"Unknown AIL item type ", "1", "2", "3", "9">>

(* C3: for a header whose li_type is XFS_LI_IUNLINK, xfs_log_item_typed    *)
(* returns the bare integer tag, equal to the header's li_type, and makes  *)
(* no cast; for every other known tag the result is a typed structure.     *)
C3_UnlinkGivesBareTag ==
    (TypedCalled /\ arg.li_type \in KnownTags) =>
        /\ arg.li_type = XFS_LI_IUNLINK =>
              /\ result.out.ret = PyLong(arg.li_type)
              /\ result.out.casts = << >>
        /\ arg.li_type # XFS_LI_IUNLINK =>
              /\ result.out.ret.kind = "value"
              /\ Len(result.out.casts) = 1

C3_Witness ==
    /\ TypedCalled
    /\ arg.li_type = XFS_LI_IUNLINK
    /\ result.out.ret.kind = "long"
    /\ result.out.ret.addr = 4664

(* C9: xfs_inode applied to the struct inode embedded as i_vnode in the    *)
(* xfs_inode at address P returns a value of type struct xfs_inode at      *)
(* address P, and the owning type it hands to container_of is the          *)
(* struct xfs_inode type descriptor.                                       *)
C9_XfsInodeRoundTrip ==
    result.fn = "xfs_inode" =>
        /\ result.out.ret =
              Value("struct xfs_inode",
                    arg.addr - FieldOffsets[layout][<<"struct xfs_inode", "i_vnode">>])
        /\ cls(result.out.casts[1][1]) = TypeDescriptor("struct xfs_inode")

---------------------------------------------------------------------------
(* Properties of the AIL traversals, checked under Spec.                   *)

TypedKind == "xfs_for_each_ail_log_item_typed"

AllTagsKnown == \A i \in 1..Len(ail_tags) : ail_tags[i] \in KnownTags

(* What the classification of the item with this tag at this address is.   *)
ExpectedClass(tag, addr) ==
    IF tag = XFS_LI_IUNLINK THEN PyLong(tag) ELSE ExpectedVariant(tag, addr)

(* C4: over a ring of N items with known tags, whose head field the        *)
(* traversal could read, xfs_for_each_ail_log_item_typed yields at most N  *)
(* results, the i-th being the classification of the i-th item in link     *)
(* order, raises nothing, and has yielded exactly N when it ends.          *)
C4_TypedTraversalInLinkOrder ==
    \A t \in Travs :
        LET g == trav[t] IN
        (/\ g.kind = TypedKind
         /\ g.st \in {"suspended", "finished"}
         /\ g.name \in ail_fields
         /\ AllTagsKnown) =>
            /\ g.errs = << >>
            /\ Len(g.out) <= Len(ail_tags)
            /\ \A i \in 1..Len(g.out) :
                  g.out[i] = ExpectedClass(ail_tags[i], ItemAddr(i))
            /\ g.st = "suspended" => Len(g.out) >= 1
            /\ g.st = "finished" => (Len(g.out) = Len(ail_tags) /\ g.stopped)

C4_Witness ==
    /\ ail_tags = <<XFS_LI_BUF, XFS_LI_INODE, XFS_LI_IUNLINK>>
    /\ trav["A"].kind = TypedKind
    /\ trav["A"].st = "finished"
    /\ trav["A"].out = <<Value("struct xfs_buf_log_item", ItemAddr(1) - 8),
                         Value("struct xfs_inode_log_item", ItemAddr(2) - 16),
                         PyLong(4664)>>

(* C5: a consumer of xfs_for_each_ail_log_item_typed that catches the      *)
(* error of an item that fails classification and goes on calling next()   *)
(* has, when the traversal ends, received the classification of every      *)
(* item that carries a known tag, those after the failed item included.    *)
C5_LaterItemsStillDecoded ==
    \A t \in Travs :
        LET g == trav[t] IN
        (/\ g.kind = TypedKind
         /\ g.st = "finished" /\ g.stopped
         /\ g.name \in ail_fields) =>
            \A i \in 1..Len(ail_tags) :
                ail_tags[i] \in KnownTags =>
                    \E j \in 1..Len(g.out) :
                        g.out[j] = ExpectedClass(ail_tags[i], ItemAddr(i))

(* C7: while 'struct xfs_ail' has not resolved, no traversal has yielded   *)
(* an item, none is suspended in the list, and each that was resumed ended *)
(* at once with one error, having read no list head.                       *)
C7_NoTraversalBeforeResolution ==
    resolved["struct xfs_ail"] = 0 =>
        \A t \in Travs :
            LET g == trav[t] IN
            /\ g.out = << >>
            /\ g.st # "suspended"
            /\ g.st = "finished" =>
                  /\ Len(g.errs) = 1 /\ IsError(g.errs[1])
                  /\ g.name = "unset" /\ g.head = 0

C7_Witness ==
    /\ resolved["struct xfs_ail"] = 0
    /\ Len(ail_tags) = 2
    /\ "xa_ail" \in ail_fields
    /\ \A t \in Travs : trav[t].st = "finished" /\ trav[t].stopped
    /\ trav["A"].kind = TypedKind /\ trav["B"].kind = "xfs_for_each_ail_entry"
    /\ trav["A"].errs = <<Raise("AttributeError", <<"ail_head_name">>)>>

(* A generator of this kind resumed alone until it finishes.               *)
RECURSIVE RunAlone(_, _)
RunAlone(g, name) ==
    IF g.st = "finished" THEN g
    ELSE RunAlone(Received(Resume(g, name)), name)

IsPrefix(s, t) == Len(s) <= Len(t) /\ SubSeq(t, 1, Len(s)) = s

InterleavedAsAlone ==
    \A t \in Travs :
        LET g == trav[t] IN
        g.st \in {"suspended", "finished"} =>
            LET alone == RunAlone(NewGen(g.kind), g.name) IN
            /\ IsPrefix(g.out, alone.out)
            /\ IsPrefix(g.errs, alone.errs)
            /\ g.st = "suspended" => g.errs = << >>
            /\ g.st = "finished" => (g.out = alone.out /\ g.errs = alone.errs)

OnlyCallbacksWrite ==
    /\ UNCHANGED imageVars
    /\ trav' # trav => UNCHANGED sessionVars
    /\ ail_head_name' # ail_head_name =>
          /\ calls' = Append(calls, <<"_detect_ail_version",
                                      Descriptor("struct xfs_ail")>>)
          /\ trav' = trav
    /\ bio_decoders' # bio_decoders =>
          /\ calls' = Append(calls, <<"_register_xfs_buf_bio_end_io",
                                      Symbol("xfs_buf_bio_end_io")>>)
          /\ trav' = trav

(* C10: two traversals of the same image resumed in any interleaving each  *)
(* receive a prefix of, and at the end exactly, what a traversal of their  *)
(* kind receives when resumed alone; no step changes the image, no step of *)
(* a traversal changes the session, and ail_head_name and the decoder      *)
(* registration change only in the step that runs their callback.          *)
C10_InterleavedTraversalsIndependent ==
    []InterleavedAsAlone /\ [][OnlyCallbacksWrite]_vars

C10_Witness ==
    /\ Len(ail_tags) = 3
    /\ trav["A"].kind = TypedKind /\ trav["B"].kind = TypedKind
    /\ trav["A"].st = "suspended" /\ Len(trav["A"].out) = 3
    /\ trav["B"].st = "suspended" /\ Len(trav["B"].out) = 1
    /\ bio_decoders # << >>

---------------------------------------------------------------------------
(* Properties of the registry and the decoder chain, checked under SpecBio.*)

CallsOf(cb) == {i \in 1..Len(calls) : calls[i][1] = cb}

(* C6: each of the two callbacks has run exactly once if its own subject   *)
(* has had a successful resolution event (one or several) and not at all   *)
(* otherwise, and it was given what that subject resolved to.              *)
C6_CallbackRunsOnceAtResolution ==
    /\ Cardinality(CallsOf("_detect_ail_version")) =
          IF resolved["struct xfs_ail"] > 0 THEN 1 ELSE 0
    /\ \A i \in CallsOf("_detect_ail_version") :
          calls[i][2] = Descriptor("struct xfs_ail")
    /\ Cardinality(CallsOf("_register_xfs_buf_bio_end_io")) =
          IF resolved["xfs_buf_bio_end_io"] > 0 THEN 1 ELSE 0
    /\ \A i \in CallsOf("_register_xfs_buf_bio_end_io") :
          calls[i][2] = Symbol("xfs_buf_bio_end_io")

C6_Witness ==
    /\ resolved["struct xfs_ail"] >= 2
    /\ resolved["xfs_buf_bio_end_io"] >= 2
    /\ resolved["struct xfs_log_item"] >= 1
    /\ Len(calls) = 2
    /\ calls[1][1] = "_register_xfs_buf_bio_end_io"

(* C8: the chain decoded from a bio is produced only for a bio whose       *)
(* completion routine is the registered xfs_buf_bio_end_io; it never has   *)
(* more than two entries; its first entry has a description, names the     *)
(* bio's bi_private as a struct xfs_buf pointer for successor and          *)
(* decode_xfsbuf for the successor's decoder; it ends with a second entry  *)
(* that describes that same xfs_buf and names no successor.                *)
C8_ChainOfTwoEntries ==
    /\ Len(chain) <= 2
    /\ dstate = "more" => Len(chain) = 1
    /\ dstate = "done" => Len(chain) = 2
    /\ Len(chain) >= 1 =>
          /\ bio.bi_end_io = SymbolAddress["xfs_buf_bio_end_io"]
          /\ bio.bi_end_io \in DOMAIN bio_decoders
          /\ "description" \in DOMAIN chain[1]
          /\ ParseHex(chain[1].description[1]) = bio.addr
          /\ "next" \in DOMAIN chain[1] /\ "decode" \in DOMAIN chain[1]
          /\ chain[1].next = Value("struct xfs_buf *", bio.bi_private)
          /\ chain[1].decode = "decode_xfsbuf"
    /\ Len(chain) >= 2 =>
          /\ dstate = "done"
          /\ chain[2].xfsbuf = chain[1].next
          /\ ParseHex(chain[2].description[1]) = bio.bi_private
          /\ "next" \notin DOMAIN chain[2]
          /\ "decode" \notin DOMAIN chain[2]

C8_Witness ==
    /\ dstate = "done"
    /\ Len(chain) = 2
    /\ bio.bi_private = 29184
    /\ chain[2].description[1] = <<"7", "2", "0", "0">>
    /\ chain[2].description[7] = <<"2", "0", "5", "0">>

(* The names _detect_ail_version chooses between.                          *)
AilHeadNames == {"ail_head", "xa_ail"}

(* C11: once _detect_ail_version has run for the resolved 'struct xfs_ail' *)
(* descriptor, the recorded ail_head_name is 'ail_head' when the           *)
(* descriptor has a field 'ail_head', it is 'xa_ail' only when the         *)
(* descriptor has a field 'xa_ail', and for a descriptor with neither      *)
(* field no field name is recorded.                                        *)
C11_RecordedHeadNameIsPresent ==
    CallsOf("_detect_ail_version") # {} =>
        /\ "ail_head" \in ail_fields => ail_head_name = "ail_head"
        /\ ail_head_name = "xa_ail" => "xa_ail" \in ail_fields
        /\ ail_fields \cap AilHeadNames = {} => ail_head_name \notin AilHeadNames

---------------------------------------------------------------------------
(* Properties of the command "xfs dump-ail", checked under SpecDump.       *)

(* The label of the branch of dump_ail written for each structured tag.    *)
BranchOf(tag) ==
    CASE tag = XFS_LI_BUF      -> "buf@"
      [] tag = XFS_LI_INODE    -> "inode@"
      [] tag = XFS_LI_EFI      -> "efi@"
      [] tag = XFS_LI_EFD      -> "efd@"
      [] tag = XFS_LI_DQUOT    -> "dquot@"
      [] tag = XFS_LI_QUOTAOFF -> "qoff@"

(* C12: every line dump_ail has printed for an item whose li_type is       *)
(* XFS_LI_EFD came from the efd branch and every line for an XFS_LI_EFI    *)
(* item from the efi branch, as each structured tag's line comes from the  *)
(* branch written for that tag; and the tag-name table XFS_LI_TYPES has an *)
(* entry for each of the seven known tags, no two of them the same.        *)
C12_IntentAndDoneDistinct ==
    /\ \A i \in 1..Len(dump.out) :
          LET line == dump.out[i] IN
          /\ line.li_type = XFS_LI_EFD => line.label = "efd@"
          /\ line.li_type = XFS_LI_EFI => line.label = "efi@"
          /\ line.li_type \in StructuredTags =>
                line.label = BranchOf(line.li_type)
    /\ KnownTags \subseteq DOMAIN XFS_LI_TYPES
    /\ \A t, u \in KnownTags : t # u => XFS_LI_TYPES[t] # XFS_LI_TYPES[u]

(* C13: when dump_ail has run over a list of N items that all carry known  *)
(* tags, on an image whose AIL it could read, it ended without an error    *)
(* after N complete lines, the i-th for the i-th item of the list and      *)
(* numbered i-1, and itemno is N.                                          *)
C13_DumpAilReportsEveryItem ==
    (/\ dump.pc \in {"done", "failed"}
     /\ AllTagsKnown
     /\ \A i \in 1..Len(dump_ail_header_fields) :
           dump_ail_header_fields[i] \in ail_fields
     /\ dump.gen.name \in ail_fields) =>
        /\ dump.pc = "done"
        /\ dump.err = NoneValue
        /\ dump.itemno = Len(ail_tags)
        /\ Len(dump.out) = Len(ail_tags)
        /\ \A i \in 1..Len(dump.out) :
              /\ dump.out[i].itemno = i - 1
              /\ dump.out[i].item = FormatHex(ItemAddr(i))
              /\ dump.out[i].li_type = ail_tags[i]
              /\ dump.out[i].complete

===========================================================================
